---- MODULE Spec2Model ----
(***************************************************************************)
(* Quorum A-160 Window/Door Sensor (HS-103) decoder,                       *)
(* src/devices/quorum_window_door.c :: quorum_window_door_callback.        *)
(*                                                                         *)
(* The callback is modelled statement by statement: a program counter pc   *)
(* walks through the checks of the function, the locals r, row, i, id and  *)
(* last_7_io are state, and the records handed to data_acquired_handler    *)
(* during the current invocation are collected in `acquired`.              *)
(***************************************************************************)
EXTENDS Integers, Sequences, FiniteSets, TLC

VARIABLES bitbuffer, pc, r, row, i, id, last_7_io, ret, acquired

vars == <<bitbuffer, pc, r, row, i, id, last_7_io, ret, acquired>>

(***************************************************************************)
(* Program constants                                                       *)
(***************************************************************************)
BIT_0 == 3

BIT_1 == 0

BIT_F == 2

IO_COUNT == 12

EXPECTED_LAST_7_IO == 48

MIN_REPEATS == 4

ROW_BITS == 25

SYNC_BIT == 24

ID_IO_COUNT == 5

MODEL_NAME == "Quorum A-160 Window/Door Sensor Model HS-103"

(***************************************************************************)
(* Bounds of the explored input space                                      *)
(***************************************************************************)
\* largest number of rows in a received bitbuffer
MaxRows == 5

(***************************************************************************)
(* Integer helpers: C's << and | on non-negative ints                      *)
(***************************************************************************)
RECURSIVE Pow2(_)
Pow2(n) == IF n = 0 THEN 1 ELSE 2 * Pow2(n - 1)

Shl(x, n) == x * Pow2(n)

RECURSIVE BitOr(_, _)
BitOr(x, y) ==
    IF x = 0 THEN y
    ELSE IF y = 0 THEN x
    ELSE (IF (x % 2 = 1) \/ (y % 2 = 1) THEN 1 ELSE 0)
         + 2 * BitOr(x \div 2, y \div 2)

(***************************************************************************)
(* bitbuffer helpers (bitbuffer.c / bitbuffer.h are not part of the        *)
(* source under study; they follow the interface described in the          *)
(* specification: a row is an indexable bit sequence with a known length,  *)
(* and the repeat selector returns the index of a row of the expected      *)
(* length whose content occurs at least min_repeats times, or -1).         *)
(***************************************************************************)
\* bit at 0-based offset n of a row; bits beyond the row's length read as 0
\* (rows are zero-filled fixed-size arrays)
bitrow_get_bit(rw, n) == IF n + 1 <= Len(rw) THEN rw[n + 1] ELSE 0

compare_rows(bits, a, b) ==
    /\ bits.bits_per_row[a] = bits.bits_per_row[b]
    /\ bits.bb[a] = bits.bb[b]

count_repeats(bits, a) == Cardinality({b \in 1..bits.num_rows : compare_rows(bits, a, b)})

\* 0-based index of the first qualifying row, -1 when there is none
bitbuffer_find_repeated_row(bits, min_repeats, row_bits) ==
    LET ok == {a \in 1..bits.num_rows :
                  /\ bits.bits_per_row[a] = row_bits
                  /\ count_repeats(bits, a) >= min_repeats}
    IN IF ok = {} THEN -1
       ELSE (CHOOSE a \in ok : \A b \in ok : a <= b) - 1

(***************************************************************************)
(* Input space: bitbuffers the demodulator can deliver                     *)
(***************************************************************************)
\* the four 2-bit sub-patterns the PWM decoder can produce for one IO
PAT_LOW == <<1, 1>>

PAT_HIGH == <<0, 0>>

PAT_FLOAT == <<1, 0>>

PAT_BAD == <<0, 1>>

Patterns == {PAT_LOW, PAT_HIGH, PAT_FLOAT, PAT_BAD}

RECURSIVE Flatten(_)
Flatten(ps) == IF ps = <<>> THEN <<>> ELSE Head(ps) \o Flatten(Tail(ps))

\* a 25-bit row from 12 sub-patterns and the trailing sync bit
MkRow(ps, sync) == Flatten(ps) \o <<sync>>

\* the fixed IOs 5..11 of a genuine transmission: 0110000
FixedPats == <<PAT_LOW, PAT_HIGH, PAT_HIGH, PAT_LOW, PAT_LOW, PAT_LOW, PAT_LOW>>

\* captured sample: ae f0 ff 80 : 10101110 11110000 11111111 1
SampleRow ==
    <<1,0,1,0,1,1,1,0, 1,1,1,1,0,0,0,0, 1,1,1,1,1,1,1,1, 1>>

SamplePats == [k \in 1..IO_COUNT |-> <<SampleRow[2 * k - 1], SampleRow[2 * k]>>]

\* every combination of sub-patterns on the ID IOs, genuine fixed IOs
IdRows ==
    {MkRow(ips \o FixedPats, s) : ips \in [1..ID_IO_COUNT -> Patterns], s \in {1}}

\* the sample's ID IOs with every LOW/HIGH combination on the fixed IOs
FixedRows ==
    {MkRow(SubSeq(SamplePats, 1, ID_IO_COUNT) \o fps, s) :
        fps \in [1..(IO_COUNT - ID_IO_COUNT) -> {PAT_LOW, PAT_HIGH}], s \in {0, 1}}

\* the sample with any one IO replaced by any sub-pattern, either sync bit
OneOffRows ==
    {MkRow([SamplePats EXCEPT ![k] = p], s) :
        k \in 1..IO_COUNT, p \in Patterns, s \in {0, 1}}

\* genuine rows of every DIP setting with the sync bit missing
NoSyncRows ==
    {MkRow(ips \o FixedPats, 0) : ips \in [1..ID_IO_COUNT -> {PAT_LOW, PAT_FLOAT}]}

\* a row cut short by one bit
Truncate(rw) == SubSeq(rw, 1, Len(rw) - 1)

Rows == IdRows \cup FixedRows \cup OneOffRows \cup NoSyncRows \cup {Truncate(SampleRow)}

\* a row unrelated to the sensor (no carrier: all zero), 25 bits
NoiseRow == [k \in 1..ROW_BITS |-> 0]

Repeat(x, n) == [k \in 1..n |-> x]

MkBuffer(rws) ==
    [num_rows |-> Len(rws), bits_per_row |-> [k \in 1..Len(rws) |-> Len(rws[k])], bb |-> rws]

\* k copies of one candidate row together with m noise rows, in either order
AllBuffers ==
    {MkBuffer(IF first THEN Repeat(c, k) \o Repeat(NoiseRow, m)
                       ELSE Repeat(NoiseRow, m) \o Repeat(c, k)) :
        c \in Rows, k \in 0..MaxRows, m \in 0..MaxRows, first \in BOOLEAN}

Buffers == {b \in AllBuffers : b.num_rows <= MaxRows}

(***************************************************************************)
(* quorum_window_door_callback, statement by statement                     *)
(***************************************************************************)
\* variant: the row-count test written with <=
truncated_le(bits) == bits.num_rows <= MIN_REPEATS

\* line 57: if (bitbuffer->num_rows < 4)
truncated(bits) == bits.num_rows < MIN_REPEATS

\* variant: one repeat fewer is asked for
find_row_3(bits) == bitbuffer_find_repeated_row(bits, MIN_REPEATS - 1, ROW_BITS)

\* line 63: r = bitbuffer_find_repeated_row(bitbuffer, 4, 25)
find_row(bits) == bitbuffer_find_repeated_row(bits, MIN_REPEATS, ROW_BITS)

\* variant: the sync bit is read one position early
sync_missing_23(rw) == bitrow_get_bit(rw, SYNC_BIT - 1) # 1

\* line 70: bitrow_get_bit(row, 24) != 1
sync_missing(rw) == bitrow_get_bit(rw, SYNC_BIT) # 1

\* variant: the two bits of an IO are combined in the opposite order
io_bit_swapped(rw, k) ==
    BitOr(Shl(bitrow_get_bit(rw, (k * 2) + 1), 1), bitrow_get_bit(rw, k * 2))

\* line 79: int bit = (bitrow_get_bit(row, i*2) << 1) | bitrow_get_bit(row, (i*2)+1)
io_bit(rw, k) == BitOr(Shl(bitrow_get_bit(rw, k * 2), 1), bitrow_get_bit(rw, (k * 2) + 1))

\* variant: the ID switch has no default case
id_valid_any(bit) == bit = BIT_0 \/ bit = BIT_F \/ bit = BIT_1

\* lines 82-86: the switch on the ID IOs; default: return 0
id_valid(bit) == bit = BIT_0 \/ bit = BIT_F

\* variant: the ID is assembled most-significant IO first
id_next_msb(v, bit, k) ==
    IF bit = BIT_0 THEN BitOr(v, Shl(1, (ID_IO_COUNT - 1) - k)) ELSE BitOr(v, Shl(0, k))

\* variant: the FLOATING case sets the bit and the LOW case clears it
id_next_inverted(v, bit, k) ==
    IF bit = BIT_F THEN BitOr(v, Shl(1, k)) ELSE BitOr(v, Shl(0, k))

id_next(v, bit, k) ==
    IF bit = BIT_0 THEN BitOr(v, Shl(1, k)) ELSE BitOr(v, Shl(0, k))

\* variant: the fixed-IO switch also lets FLOATING through
last_7_valid_float(bit) == bit = BIT_0 \/ bit = BIT_1 \/ bit = BIT_F

\* lines 89-94: the shift and the switch on the fixed IOs; default: return 0
last_7_valid(bit) == bit = BIT_0 \/ bit = BIT_1

last_7_next(v, bit) ==
    IF bit = BIT_0 THEN BitOr(Shl(v, 1), 0) ELSE BitOr(Shl(v, 1), 1)

\* variant: only the low six bits of the fixed field are compared
last_7_mismatch_low6(v) == (v % 64) # EXPECTED_LAST_7_IO

\* line 99: if (last_7_io != EXPECTED_LAST_7_IO)
last_7_mismatch(v) == v # EXPECTED_LAST_7_IO

\* lines 103-107: data_make("time", ..., "model", ..., "id", ...)
data_make(v) == [time |-> "time_str", model |-> MODEL_NAME, id |-> v]

Return(v) ==
    /\ ret' = v
    /\ pc' = "done"

Init ==
    /\ bitbuffer = MkBuffer(<<>>)
    /\ pc = "idle"
    /\ r = -1
    /\ row = <<>>
    /\ i = 0
    /\ id = 0
    /\ last_7_io = 0
    /\ ret = -1
    /\ acquired = <<>>

\* the demodulator calls the callback with one received bitbuffer;
\* lines 50, 52: id = 0, last_7_io = 0
Call ==
    /\ pc = "idle"
    /\ \E b \in Buffers : bitbuffer' = b
    /\ pc' = "check_rows"
    /\ id' = 0
    /\ last_7_io' = 0
    /\ UNCHANGED <<r, row, i, ret, acquired>>

\* lines 57-58
CheckRows ==
    /\ pc = "check_rows"
    /\ IF truncated(bitbuffer)
       THEN Return(0)
       ELSE pc' = "find" /\ UNCHANGED ret
    /\ UNCHANGED <<bitbuffer, r, row, i, id, last_7_io, acquired>>

\* lines 63-68
FindRow ==
    /\ pc = "find"
    /\ r' = find_row(bitbuffer)
    /\ IF r' < 0
       THEN Return(0) /\ UNCHANGED row
       ELSE /\ row' = bitbuffer.bb[r' + 1]
            /\ pc' = "sync"
            /\ UNCHANGED ret
    /\ UNCHANGED <<bitbuffer, i, id, last_7_io, acquired>>

\* lines 70-71, and the loop initialisation of line 74
CheckSync ==
    /\ pc = "sync"
    /\ IF sync_missing(row)
       THEN Return(0) /\ UNCHANGED i
       ELSE /\ i' = 0
            /\ pc' = "loop"
            /\ UNCHANGED ret
    /\ UNCHANGED <<bitbuffer, r, row, id, last_7_io, acquired>>

\* lines 74-96: one iteration of the loop over the IOs
LoopId ==
    /\ pc = "loop"
    /\ i < IO_COUNT
    /\ i < ID_IO_COUNT
    /\ LET bit == io_bit(row, i)
       IN IF id_valid(bit)
          THEN /\ id' = id_next(id, bit, i)
               /\ i' = i + 1
               /\ UNCHANGED <<pc, ret>>
          ELSE Return(0) /\ UNCHANGED <<id, i>>
    /\ UNCHANGED <<bitbuffer, r, row, last_7_io, acquired>>

LoopFixed ==
    /\ pc = "loop"
    /\ i < IO_COUNT
    /\ ~(i < ID_IO_COUNT)
    /\ LET bit == io_bit(row, i)
       IN IF last_7_valid(bit)
          THEN /\ last_7_io' = last_7_next(last_7_io, bit)
               /\ i' = i + 1
               /\ UNCHANGED <<pc, ret>>
          ELSE \* last_7_io <<= 1 has already run when the switch returns
               /\ last_7_io' = Shl(last_7_io, 1)
               /\ Return(0)
               /\ UNCHANGED i
    /\ UNCHANGED <<bitbuffer, r, row, id, acquired>>

\* line 74 (loop exit) and lines 99-100
CheckLast7 ==
    /\ pc = "loop"
    /\ ~(i < IO_COUNT)
    /\ IF last_7_mismatch(last_7_io)
       THEN Return(0)
       ELSE pc' = "emit" /\ UNCHANGED ret
    /\ UNCHANGED <<bitbuffer, r, row, i, id, last_7_io, acquired>>

\* lines 102-108: data_acquired_handler(data)
Emit ==
    /\ pc = "emit"
    /\ acquired' = Append(acquired, data_make(id))
    /\ pc' = "return"
    /\ UNCHANGED <<bitbuffer, r, row, i, id, last_7_io, ret>>

\* variant: the success path reports failure
ReturnOne_zero ==
    /\ pc = "return"
    /\ Return(0)
    /\ UNCHANGED <<bitbuffer, r, row, i, id, last_7_io, acquired>>

\* line 110
ReturnOne ==
    /\ pc = "return"
    /\ Return(1)
    /\ UNCHANGED <<bitbuffer, r, row, i, id, last_7_io, acquired>>

\* the caller takes the result and the record; nothing is carried over
Finish ==
    /\ pc = "done"
    /\ bitbuffer' = MkBuffer(<<>>)
    /\ pc' = "idle"
    /\ r' = -1
    /\ row' = <<>>
    /\ i' = 0
    /\ id' = 0
    /\ last_7_io' = 0
    /\ ret' = -1
    /\ acquired' = <<>>

Next ==
    \/ Call
    \/ CheckRows
    \/ FindRow
    \/ CheckSync
    \/ LoopId
    \/ LoopFixed
    \/ CheckLast7
    \/ Emit
    \/ ReturnOne
    \/ Finish

Spec == Init /\ [][Next]_vars

TypeOK ==
    /\ pc \in {"idle", "check_rows", "find", "sync", "loop", "emit", "return", "done"}
    /\ ret \in {-1, 0, 1}
    /\ i \in 0..IO_COUNT
    /\ Len(acquired) <= 1

(***************************************************************************)
(* Vocabulary of the claims, stated on the raw bits of the received        *)
(* bitbuffer, independently of the decoder's own operators                 *)
(***************************************************************************)
\* number of rows of the buffer with the content of row a
Occurrences(bits, a) == Cardinality({b \in 1..Len(bits.bb) : bits.bb[b] = bits.bb[a]})

\* rows of 25 bits whose content occurs at least 4 times
Qualifying(bits) == {a \in 1..Len(bits.bb) : Len(bits.bb[a]) = 25 /\ Occurrences(bits, a) >= 4}

HasRepresentative == Qualifying(bitbuffer) # {}

\* the representative row: the first qualifying one
Representative ==
    bitbuffer.bb[CHOOSE a \in Qualifying(bitbuffer) : \A b \in Qualifying(bitbuffer) : a <= b]

\* the 2-bit sub-pattern at raw offsets 2k, 2k+1 (k = 0..11)
SubPattern(rw, k) == <<rw[2 * k + 1], rw[2 * k + 2]>>

IsLow(rw, k) == SubPattern(rw, k) = <<1, 1>>

IsHigh(rw, k) == SubPattern(rw, k) = <<0, 0>>

IsFloating(rw, k) == SubPattern(rw, k) = <<1, 0>>

IsUnmapped(rw, k) == SubPattern(rw, k) = <<0, 1>>

AllMapped(rw) == \A k \in 0..11 : IsLow(rw, k) \/ IsHigh(rw, k) \/ IsFloating(rw, k)

IdDomain(rw) == \A k \in 0..4 : IsLow(rw, k) \/ IsFloating(rw, k)

FixedDomain(rw) == \A k \in 5..11 : IsLow(rw, k) \/ IsHigh(rw, k)

\* symbols 5..11 read most-significant first, LOW = 0, HIGH = 1
RECURSIVE FixedValue(_, _)
FixedValue(rw, k) ==
    IF k < 5 THEN 0
    ELSE 2 * FixedValue(rw, k - 1) + (IF IsHigh(rw, k) THEN 1 ELSE 0)

FixedIs0110000(rw) ==
    /\ IsLow(rw, 5) /\ IsHigh(rw, 6) /\ IsHigh(rw, 7)
    /\ IsLow(rw, 8) /\ IsLow(rw, 9) /\ IsLow(rw, 10) /\ IsLow(rw, 11)

FramingSet(rw) == rw[25] = 1

\* sum of 2^k over the positions k in 0..upto whose symbol is LOW
RECURSIVE LowWeight(_, _)
LowWeight(rw, upto) ==
    IF upto < 0 THEN 0
    ELSE (IF IsLow(rw, upto) THEN 2 ^ upto ELSE 0) + LowWeight(rw, upto - 1)

Returned == pc = "done"

Rejected == ret = 0 /\ acquired = <<>>

Accepted == ret = 1 /\ Len(acquired) = 1

\* every condition of a genuine transmission except the one named
Genuine(rw) ==
    /\ AllMapped(rw) /\ IdDomain(rw) /\ FixedDomain(rw)
    /\ FixedIs0110000(rw) /\ FramingSet(rw)

(***************************************************************************)
(* Claims                                                                  *)
(***************************************************************************)
\* C1: when the callback has returned, a record has been handed to the sink
\* if and only if (a) a 25-bit row occurring at least 4 times was found and
\* its representative has (b) 12 mapped sub-patterns, (c) IOs 0-4 in
\* {LOW, FLOATING}, (d) IOs 5-11 in {LOW, HIGH} spelling 0110000 and
\* (e) raw bit 24 equal to 1.
C1_RecordIffAllFive ==
    Returned =>
        ((acquired # <<>>) <=>
            /\ HasRepresentative
            /\ AllMapped(Representative)
            /\ IdDomain(Representative)
            /\ FixedDomain(Representative) /\ FixedIs0110000(Representative)
            /\ FramingSet(Representative))

C1_Witness ==
    /\ Returned /\ acquired # <<>>
    /\ HasRepresentative /\ Genuine(Representative)

\* C2: the return value and the sink agree: 1 is returned exactly when one
\* record was handed over, 0 exactly when none was; never more than one
\* record; the record is handed over before the return; a rejection never
\* leaves output behind.
C2_StateAgreement ==
    /\ Len(acquired) <= 1
    /\ (Returned => ret \in {0, 1})
    /\ (ret = 1 <=> (Returned /\ Len(acquired) = 1))
    /\ (ret = 0 <=> (Returned /\ Len(acquired) = 0))

C2_HandOverBeforeReturn ==
    (acquired' # acquired /\ pc' # "idle") =>
        /\ acquired = <<>> /\ Len(acquired') = 1
        /\ ret = -1 /\ ret' = -1

C2_ReturnMatchesSink == [](C2_StateAgreement) /\ [][C2_HandOverBeforeReturn]_vars

C2_Witness == Returned /\ ret = 1 /\ Len(acquired) = 1

\* C3: when no row content occurs 4 or more times in the buffer, the
\* callback returns 0 and emits nothing, whatever the rows contain.
C3_RepeatGating ==
    (Returned /\ \A a \in 1..Len(bitbuffer.bb) : Occurrences(bitbuffer, a) < 4) => Rejected

\* a genuine row present 3 times in a buffer of at least 4 rows
C3_Witness ==
    /\ Returned /\ Rejected
    /\ Len(bitbuffer.bb) >= 4
    /\ \E a \in 1..Len(bitbuffer.bb) :
          /\ Len(bitbuffer.bb[a]) = 25
          /\ Genuine(bitbuffer.bb[a])
          /\ Occurrences(bitbuffer, a) = 3

\* C4: the emitted id is the sum of 2^k over the positions k in 0..4 of the
\* representative row whose symbol is LOW, and lies in 0..31.
C4_IdAssembly ==
    (acquired # <<>>) =>
        /\ HasRepresentative
        /\ acquired[1].id = LowWeight(Representative, 4)
        /\ acquired[1].id \in 0..31

\* FLOATING, LOW, FLOATING, LOW, FLOATING gives 2 + 8
C4_Witness ==
    /\ Returned /\ Accepted
    /\ IsFloating(row, 0) /\ IsLow(row, 1) /\ IsFloating(row, 2)
    /\ IsLow(row, 3) /\ IsFloating(row, 4)
    /\ acquired[1].id = 10

\* the case of P6: an accepted row with IOs 0-4 = LOW, FLOATING, LOW, LOW, FLOATING
P6Case ==
    /\ Returned /\ Accepted
    /\ HasRepresentative
    /\ IsLow(Representative, 0) /\ IsFloating(Representative, 1) /\ IsLow(Representative, 2)
    /\ IsLow(Representative, 3) /\ IsFloating(Representative, 4)

\* C5 as stated: the id of the P6 row is 5.
C5_Original == P6Case => acquired[1].id = 5

\* C5 amended: the id of the P6 row is binary 01101 with IO 0 as the
\* least-significant bit, i.e. 13.
C5_P6IdIs13 == P6Case => acquired[1].id = 13

C5_Witness == P6Case /\ acquired[1].id = 1 + 4 + 8

\* C6: a representative row with the sub-pattern 01 at any of the 12 IO
\* positions is rejected.
C6_UnmappedRejected ==
    (Returned /\ HasRepresentative /\ \E k \in 0..11 : IsUnmapped(Representative, k))
        => Rejected

\* 01 on the last IO of an otherwise genuine row
C6_Witness ==
    /\ Returned /\ Rejected /\ HasRepresentative
    /\ IsUnmapped(Representative, 11)
    /\ \A k \in 0..10 : ~IsUnmapped(Representative, k)
    /\ IdDomain(Representative) /\ FramingSet(Representative)

\* C7: HIGH on any of IOs 0..4, or FLOATING on any of IOs 5..11, of the
\* representative row forces rejection.
C7_FieldDomain ==
    (/\ Returned /\ HasRepresentative
     /\ \/ \E k \in 0..4 : IsHigh(Representative, k)
        \/ \E k \in 5..11 : IsFloating(Representative, k))
        => Rejected

\* FLOATING where the fixed field has a HIGH, nothing else wrong
C7_Witness ==
    /\ Returned /\ Rejected /\ HasRepresentative
    /\ IsFloating(Representative, 6)
    /\ AllMapped(Representative) /\ IdDomain(Representative) /\ FramingSet(Representative)
    /\ \A k \in (5..11) \ {6} : SubPattern(Representative, k) = SubPattern(SampleRow, k)

\* C8: a representative row whose IOs 5..11 are all LOW or HIGH but read
\* (most-significant first) as a value other than 0110000 = 48 is rejected.
C8_FixedFieldExact ==
    (/\ Returned /\ HasRepresentative
     /\ FixedDomain(Representative)
     /\ FixedValue(Representative, 11) # 48)
        => Rejected

\* the sample with LOW and HIGH swapped on the last IO only: 0110001
C8_Witness ==
    /\ Returned /\ Rejected /\ HasRepresentative
    /\ AllMapped(Representative) /\ IdDomain(Representative) /\ FramingSet(Representative)
    /\ FixedDomain(Representative)
    /\ FixedValue(Representative, 11) = 49

\* C9: a representative row whose raw bit 24 is 0 is rejected, also when
\* every other condition holds.
C9_FramingBit ==
    (Returned /\ HasRepresentative /\ Representative[25] = 0) => Rejected

C9_Witness ==
    /\ Returned /\ Rejected /\ HasRepresentative
    /\ AllMapped(Representative) /\ IdDomain(Representative)
    /\ FixedDomain(Representative) /\ FixedIs0110000(Representative)
    /\ Representative[25] = 0

\* the buffer of scenario E2E-1: 4 copies of 10101110 11110000 11111111 1
E2E1 ==
    /\ bitbuffer.num_rows = 4
    /\ \A a \in 1..4 :
          bitbuffer.bb[a] = <<1,0,1,0,1,1,1,0, 1,1,1,1,0,0,0,0, 1,1,1,1,1,1,1,1, 1>>

\* C10: on the E2E-1 buffer the decoder reaches the emitter with 12 IOs
\* decoded and the fixed field 0110000, returns 1 and emits exactly one
\* record, with the Quorum model label and id 20.
C10_SampleDecodes ==
    E2E1 =>
        /\ (pc = "emit" => i = 12 /\ last_7_io = 48 /\ row[25] = 1)
        /\ (Returned =>
              /\ ret = 1
              /\ Len(acquired) = 1
              /\ acquired[1].model = "Quorum A-160 Window/Door Sensor Model HS-103"
              /\ acquired[1].id = 20)

C10_Witness ==
    /\ E2E1 /\ Returned /\ Accepted
    /\ IsFloating(row, 0) /\ IsFloating(row, 1) /\ IsLow(row, 2)
    /\ IsFloating(row, 3) /\ IsLow(row, 4)

====
